---- MODULE Spec2Model ----
(***************************************************************************)
(* A model of asr_evaluation.py: evaluate() folds the line pairs of a      *)
(* reference and a hypothesis file into corpus totals, process_line_pair() *)
(* normalises one pair, aligns it and records it in the module-level       *)
(* tables (insertion_table, deletion_table, substitution_table, wer_bins). *)
(*                                                                         *)
(* edit_distance.SequenceMatcher is a library outside the repository.  It  *)
(* is modelled by its contract: get_opcodes() is some minimum-edit-        *)
(* distance alignment in difflib's opcode format (tag, i1, i2, j1, j2),    *)
(* matches() the number of tokens under its equal opcodes, and             *)
(* get_matching_blocks() the blocks of those opcodes.  The choice among    *)
(* the alignments is nondeterministic.                                     *)
(*                                                                         *)
(* A float is modelled by the reduced fraction it rounds: <<n, d>>, with   *)
(* <<1, 0>> for float("inf").                                              *)
(***************************************************************************)
EXTENDS Integers, Sequences, FiniteSets, TLC

\* ------------------------------------------------------------- bounds
\* Longest input line, in items (tokens and whitespace runs).
MaxLen == 2
\* Line pairs zip() yields over the life of the process.
MaxPairs == 2
\* Calls of evaluate() in one process.
MaxRuns == 2

\* ------------------------------------------------------------- inputs
\* A line is a sequence of items: a token, or WS, a run of whitespace with
\* nothing between it and its neighbours.  Adjacent tokens are separated by
\* whitespace that str.split() drops like any other.
WS == " "
Tokens == {"a", "A"}
Items == Tokens \cup {WS}
Lines == UNION {[1..n -> Items] : n \in 0..MaxLen}

\* str.split(): the tokens of the line, whitespace dropped.
split(line) == SelectSeq(line, LAMBDA x : x # WS)

\* str.lower on one token.
lower(t) == IF t = "A" THEN "a" ELSE t

Max(x, y) == IF x >= y THEN x ELSE y
Min(x, y) == IF x <= y THEN x ELSE y

RECURSIVE reduce_add(_)
\* reduce(lambda x, y: x + y, s, 0)
reduce_add(s) == IF s = <<>> THEN 0 ELSE Head(s) + reduce_add(Tail(s))

RECURSIVE Gcd(_, _)
Gcd(x, y) == IF y = 0 THEN x ELSE Gcd(y, x % y)

\* The float n / d (d > 0) as a reduced fraction.
Div(n, d) == LET g == Gcd(n, d) IN <<n \div g, d \div g>>
Inf == <<1, 0>>
Zero == <<0, 1>>

\* ------------------------------------------------------------- aligner
\* The opcodes that can start at (i, j): Python's half-open, 0-based ranges.
OpsAt(a, b, i, j) ==
    {<<"equal", i, i + k, j, j + k>> : k \in
        {n \in 1..Min(Len(a) - i, Len(b) - j) :
            \A t \in 1..n : a[i + t] = b[j + t]}}
    \cup {<<"replace", i, i2, j, j2>> : i2 \in (i + 1)..Len(a), j2 \in (j + 1)..Len(b)}
    \cup {<<"delete", i, i2, j, j>> : i2 \in (i + 1)..Len(a)}
    \cup {<<"insert", i, i, j, j2>> : j2 \in (j + 1)..Len(b)}

RECURSIVE AlignFrom(_, _, _, _)
\* Every opcode list that partitions a[i:] and b[j:] in order.
AlignFrom(a, b, i, j) ==
    IF i = Len(a) /\ j = Len(b) THEN {<<>>}
    ELSE UNION {{<<op>> \o rest : rest \in AlignFrom(a, b, op[3], op[5])} :
                    op \in OpsAt(a, b, i, j)}

\* The edit cost of an opcode list: an opcode other than equal costs the
\* longer of its two ranges.
Cost(ops) ==
    reduce_add([k \in DOMAIN ops |->
        IF ops[k][1] = "equal" THEN 0
        ELSE Max(ops[k][3] - ops[k][2], ops[k][5] - ops[k][4])])

\* The alignments of minimum edit distance.
Alignments(a, b) ==
    LET all == AlignFrom(a, b, 0, 0)
    IN  {ops \in all : \A other \in all : Cost(ops) <= Cost(other)}

\* The token sequences process_line_pair can hand to the matcher.
TokenSeqs == UNION {[1..n -> Tokens] : n \in 0..MaxLen}

\* Alignments, tabulated once.
AlignmentTable == [p \in TokenSeqs \X TokenSeqs |-> Alignments(p[1], p[2])]

\* Every partitioning opcode list, of minimum distance or not, tabulated once.
PartitionTable == [p \in TokenSeqs \X TokenSeqs |-> AlignFrom(p[1], p[2], 0, 0)]

\* Which matcher the process runs with: "minimum" is edit_distance's, "any"
\* is any aligner whose opcodes partition both sequences.
VARIABLE aligner

\* SequenceMatcher(a=ref, b=hyp): the matcher objects the library may build.
SequenceMatcher(a, b) ==
    {[opcodes |-> ops,
      matches |-> reduce_add([k \in DOMAIN ops |->
                     IF ops[k][1] = "equal" THEN ops[k][3] - ops[k][2] ELSE 0]),
      matching_blocks |->
          LET eq == SelectSeq(ops, LAMBDA x : x[1] = "equal")
          IN  [k \in DOMAIN eq |-> <<eq[k][2], eq[k][4], eq[k][3] - eq[k][2]>>]]
     : ops \in IF aligner = "minimum" THEN AlignmentTable[<<a, b>>]
                ELSE PartitionTable[<<a, b>>]}

\* ------------------------------------------------------------- counts
\* Mutant: deletions are not counted as errors.
error_codes_no_delete == {"replace", "insert"}

error_codes == {"replace", "delete", "insert"}

\* Mutant: an opcode counts both of its ranges, m + n.
get_error_count_both_ranges(sm) ==
    LET errs == SelectSeq(sm.opcodes, LAMBDA x : x[1] \in error_codes)
    IN  reduce_add([k \in DOMAIN errs |->
            (errs[k][3] - errs[k][2]) + (errs[k][5] - errs[k][4])])

get_error_count(sm) ==
    LET opcodes == sm.opcodes
        errs == SelectSeq(opcodes, LAMBDA x : x[1] \in error_codes)
        error_lengths == [k \in DOMAIN errs |->
                             Max(errs[k][3] - errs[k][2], errs[k][5] - errs[k][4])]
    IN  reduce_add(error_lengths)

\* get_match_count: ok is the assertion matches1 == matches2.
get_match_count(sm) ==
    LET matches1 == sm.matches
        matches2 == reduce_add([k \in DOMAIN sm.matching_blocks |->
                                   sm.matching_blocks[k][3]])
    IN  [ok |-> matches1 = matches2, matches |-> matches1]

\* ------------------------------------------------------------- tables
\* A defaultdict: a function whose domain is the keys touched so far.
EmptyDict == <<>>

\* table[key] += 1 on a defaultdict(int).
incr(table, key) ==
    IF key \in DOMAIN table THEN [table EXCEPT ![key] = @ + 1]
    ELSE table @@ (key :> 1)

RECURSIVE incr_each(_, _)
\* table[key] += 1 for each key of the sequence keys, in order.
incr_each(table, keys) ==
    IF keys = <<>> THEN table ELSE incr_each(incr(table, Head(keys)), Tail(keys))

\* bins[key].append(x) on a defaultdict(list).
append_bin(bins, key, x) ==
    IF key \in DOMAIN bins THEN [bins EXCEPT ![key] = Append(@, x)]
    ELSE bins @@ (key :> <<x>>)

\* seq[i1:i2], Python's slice.
slice(seq, i1, i2) == [k \in 1..(i2 - i1) |-> seq[i1 + k]]

\* Mutant: the tokens of a replace are paired by position.
cross_by_position(s1, s2) ==
    [k \in 1..Min(Len(s1), Len(s2)) |-> <<s1[k], s2[k]>>]

\* [(w1, w2) for w1 in s1 for w2 in s2]
cross(s1, s2) ==
    [k \in 1..(Len(s1) * Len(s2)) |->
        <<s1[1 + ((k - 1) \div Len(s2))], s2[1 + ((k - 1) % Len(s2))]>>]

\* One opcode of track_confusions' loop, on t = [ins, del, sub].
track_opcode(t, op, seq1, seq2) ==
    LET tag == op[1]
        i1 == op[2]
        i2 == op[3]
        j1 == op[4]
        j2 == op[5]
    IN  IF tag = "insert" THEN [t EXCEPT !.ins = incr_each(@, slice(seq2, j1, j2))]
        ELSE IF tag = "delete" THEN [t EXCEPT !.del = incr_each(@, slice(seq1, i1, i2))]
        ELSE IF tag = "replace"
             THEN [t EXCEPT !.sub = incr_each(@, cross(slice(seq1, i1, i2),
                                                      slice(seq2, j1, j2)))]
        ELSE t

RECURSIVE track_loop(_, _, _, _)
track_loop(t, opcodes, seq1, seq2) ==
    IF opcodes = <<>> THEN t
    ELSE track_loop(track_opcode(t, Head(opcodes), seq1, seq2), Tail(opcodes), seq1, seq2)

\* track_confusions(sm, seq1, seq2) on the three module-level tables.
track_confusions(t, sm, seq1, seq2) == track_loop(t, sm.opcodes, seq1, seq2)

\* ------------------------------------------------------------- state
VARIABLES
    \* module-level configuration (lines 28-34)
    files_head_ids, files_tail_ids, confusions, wer_vs_length_p,
    \* module-level accumulators (lines 41-46)
    wer_bins, insertion_table, deletion_table, substitution_table,
    \* the args object of the running (or last) call of evaluate
    args,
    \* evaluate's locals (lines 83-93)
    ref_token_count, match_count, error_count, sent_error_count, line_count,
    processed_p, ref_length, matches, errors,
    \* process_line_pair's locals at its last return (lines 144-167)
    ref, hyp, sm,
    \* "idle": no call of evaluate is active; "loop": evaluate is in its for
    \* loop; "exited": exit(-1) ended the process; "raised": an exception
    \* left evaluate
    pc,
    \* what was raised, "" if nothing
    raised,
    \* calls of evaluate so far, line pairs consumed so far
    runs, pairs,
    \* the results returned so far, one per completed call
    results,
    \* history: the LineResults (and hypothesis lengths) of the pairs the last
    \* call of evaluate processed, and whether a pair had differing reference
    \* and hypothesis IDs
    processed, mismatch

config == <<files_head_ids, files_tail_ids, confusions, wer_vs_length_p>>
tables == <<insertion_table, deletion_table, substitution_table>>
totals == <<ref_token_count, match_count, error_count, sent_error_count, line_count>>
line_locals == <<processed_p, ref_length, matches, errors, ref, hyp, sm>>
vars == <<aligner, config, wer_bins, tables, args, totals, line_locals, pc, raised,
          runs, pairs, results, processed, mismatch>>

None == "None"

\* The fields of args that evaluate and set_global_variables read and that
\* change what evaluate computes (print_instances, print_errors and
\* min_word_count only change what is printed).
Args ==
    [head_ids : BOOLEAN, tail_ids : BOOLEAN, confusions : BOOLEAN,
     print_wer_vs_length : BOOLEAN, case_insensitive : BOOLEAN,
     remove_empty_refs : BOOLEAN]

Start ==
    /\ files_head_ids = FALSE
    /\ files_tail_ids = FALSE
    /\ confusions = FALSE
    /\ wer_vs_length_p = TRUE
    /\ wer_bins = EmptyDict
    /\ insertion_table = EmptyDict
    /\ deletion_table = EmptyDict
    /\ substitution_table = EmptyDict
    /\ args = None
    /\ ref_token_count = 0
    /\ match_count = 0
    /\ error_count = 0
    /\ sent_error_count = 0
    /\ line_count = 0
    /\ processed_p = FALSE
    /\ ref_length = 0
    /\ matches = 0
    /\ errors = 0
    /\ ref = <<>>
    /\ hyp = <<>>
    /\ sm = None
    /\ pc = "idle"
    /\ raised = ""
    /\ runs = 0
    /\ pairs = 0
    /\ results = <<>>
    /\ processed = <<>>
    /\ mismatch = FALSE

\* ------------------------------------------------------------- process_line_pair
\* Mutant: differing IDs are reported and the run goes on.
remove_head_id_no_exit(r, h) ==
    IF r = <<>> \/ h = <<>> THEN [raise |-> "IndexError", ref |-> r, hyp |-> h]
    ELSE [raise |-> "", ref |-> Tail(r), hyp |-> Tail(h)]

\* remove_head_id(ref, hyp): what it raises, and what it returns.
remove_head_id(r, h) ==
    IF r = <<>> \/ h = <<>> THEN [raise |-> "IndexError", ref |-> r, hyp |-> h]
    ELSE IF r[1] # h[1] THEN [raise |-> "SystemExit", ref |-> r, hyp |-> h]
    ELSE [raise |-> "", ref |-> Tail(r), hyp |-> Tail(h)]

\* remove_tail_id(ref, hyp)
remove_tail_id(r, h) ==
    IF r = <<>> \/ h = <<>> THEN [raise |-> "IndexError", ref |-> r, hyp |-> h]
    ELSE IF r[Len(r)] # h[Len(h)] THEN [raise |-> "SystemExit", ref |-> r, hyp |-> h]
    ELSE [raise |-> "", ref |-> SubSeq(r, 1, Len(r) - 1), hyp |-> SubSeq(h, 1, Len(h) - 1)]

\* Lines 144-154: split both lines and take the IDs off (id_ = ref[0] and
\* id_ = ref[-1] raise IndexError on an empty reference).
strip_ids(ref_line, hyp_line) ==
    LET r == split(ref_line)
        h == split(hyp_line)
    IN  IF files_head_ids
        THEN IF r = <<>> THEN [raise |-> "IndexError", ref |-> r, hyp |-> h]
             ELSE remove_head_id(r, h)
        ELSE IF files_tail_ids
        THEN IF r = <<>> THEN [raise |-> "IndexError", ref |-> r, hyp |-> h]
             ELSE remove_tail_id(r, h)
        ELSE [raise |-> "", ref |-> r, hyp |-> h]

\* Lines 156-158.
fold_case(seq, case_insens) ==
    IF case_insens THEN [k \in DOMAIN seq |-> lower(seq[k])] ELSE seq

\* Mutant: remove_empty_refs is ignored.
skip_empty_ref_never(remove_empty, r) == FALSE

\* Lines 159-160: the skip of an empty reference.
skip_empty_ref(remove_empty, r) == remove_empty /\ Len(r) = 0

\* Lines 170-171: the tables after the pair.
confusions_after(t, m, r, h) ==
    IF confusions THEN track_confusions(t, m, r, h) ELSE t

\* Mutant: an empty reference is recorded with the rate 0.0.
wer_bins_after_zero_rate(bins, r, errs) ==
    LET error_rate == IF Len(r) > 0 THEN Div(errs, Len(r)) ELSE Zero
    IN  append_bin(bins, Len(r), error_rate)

\* Lines 179-185: wer_bins after the pair.
wer_bins_after(bins, r, errs) ==
    LET error_rate == IF Len(r) > 0 THEN Div(errs, Len(r)) ELSE Inf
    IN  append_bin(bins, Len(r), error_rate)

\* Lines 162-186 for one matcher m: what process_line_pair returns and the
\* module-level state it leaves.
line_result(r, h, m) ==
    LET errs == get_error_count(m)
        mc == get_match_count(m)
        t == confusions_after([ins |-> insertion_table, del |-> deletion_table,
                               sub |-> substitution_table], m, r, h)
    IN  IF ~mc.ok
        THEN [raise |-> "AssertionError", processed_p |-> FALSE, ref_length |-> 0,
              matches |-> 0, errors |-> 0, ref |-> r, hyp |-> h, sm |-> m,
              tables |-> [ins |-> insertion_table, del |-> deletion_table,
                          sub |-> substitution_table],
              wer_bins |-> wer_bins]
        ELSE [raise |-> "", processed_p |-> TRUE, ref_length |-> Len(r),
              matches |-> mc.matches, errors |-> errs, ref |-> r, hyp |-> h, sm |-> m,
              tables |-> t, wer_bins |-> wer_bins_after(wer_bins, r, errs)]

\* process_line_pair(ref_line, hyp_line, line_count, case_insensitive,
\* remove_empty_refs): the set of its outcomes, one per alignment the
\* matcher may choose.
process_line_pair(ref_line, hyp_line, case_insens, remove_empty) ==
    LET s == strip_ids(ref_line, hyp_line)
        r == fold_case(s.ref, case_insens)
        h == fold_case(s.hyp, case_insens)
        untouched == [raise |-> s.raise, processed_p |-> FALSE, ref_length |-> 0,
                      matches |-> 0, errors |-> 0, ref |-> r, hyp |-> h, sm |-> None,
                      tables |-> [ins |-> insertion_table, del |-> deletion_table,
                                  sub |-> substitution_table],
                      wer_bins |-> wer_bins]
    IN  IF s.raise # "" THEN {untouched}
        ELSE IF skip_empty_ref(remove_empty, r) THEN {untouched}
        ELSE {line_result(r, h, m) : m \in SequenceMatcher(r, h)}

\* ------------------------------------------------------------- evaluate
\* Lines 100-101.
sent_error_after(count, errs) == IF errs # 0 THEN count + 1 ELSE count

\* Mutant: a pair that was not processed is counted as a sentence.
totals_after_unconditional(o) ==
    [line_count |-> line_count + 1,
     ref_token_count |-> ref_token_count + o.ref_length,
     match_count |-> match_count + o.matches,
     error_count |-> error_count + o.errors,
     sent_error_count |-> IF o.errors # 0 THEN sent_error_count + 1
                          ELSE sent_error_count]

\* Mutant: the matches and the errors of the pair are swapped.
totals_after_swapped(o) ==
    IF o.processed_p
    THEN [line_count |-> line_count + 1,
          ref_token_count |-> ref_token_count + o.ref_length,
          match_count |-> match_count + o.errors,
          error_count |-> error_count + o.matches,
          sent_error_count |-> IF o.errors # 0 THEN sent_error_count + 1
                               ELSE sent_error_count]
    ELSE [line_count |-> line_count,
          ref_token_count |-> ref_token_count,
          match_count |-> match_count,
          error_count |-> error_count,
          sent_error_count |-> sent_error_count]

\* Lines 94-101: the totals after a pair whose outcome is o.
totals_after(o) ==
    IF o.processed_p
    THEN [line_count |-> line_count + 1,
          ref_token_count |-> ref_token_count + o.ref_length,
          match_count |-> match_count + o.matches,
          error_count |-> error_count + o.errors,
          sent_error_count |-> sent_error_after(sent_error_count, o.errors)]
    ELSE [line_count |-> line_count,
          ref_token_count |-> ref_token_count,
          match_count |-> match_count,
          error_count |-> error_count,
          sent_error_count |-> sent_error_count]

\* Lines 103-114.
rate(count, denominator) == IF denominator > 0 THEN Div(count, denominator) ELSE Zero

\* Lines 116-130: the AsrEvaluationResults.  'insertions' and 'deletions' are
\* the module-level dicts themselves, named here; 'substitutions' is a list
\* built from substitution_table at the return.
evaluation_results ==
    [sentence_count |-> line_count,
     ref_token_count |-> ref_token_count,
     match_count |-> match_count,
     error_count |-> error_count,
     sent_error_count |-> sent_error_count,
     wer |-> rate(error_count, ref_token_count),
     wrr |-> rate(match_count, ref_token_count),
     ser |-> rate(sent_error_count, line_count),
     insertions |-> "insertion_table",
     deletions |-> "deletion_table",
     substitutions |-> substitution_table]

\* Whether the reference and the hypothesis of the pair carry different IDs
\* under the ID mode in force.
ids_differ(ref_line, hyp_line) ==
    LET r == split(ref_line)
        h == split(hyp_line)
    IN  /\ r # <<>>
        /\ h # <<>>
        /\ \/ files_head_ids /\ r[1] # h[1]
           \/ ~files_head_ids /\ files_tail_ids /\ r[Len(r)] # h[Len(h)]

\* evaluate(args) up to its loop: set_global_variables (lines 189-205) and
\* the fresh locals (lines 83-88).
Evaluate(a) ==
    /\ pc = "idle"
    /\ runs < MaxRuns
    /\ runs' = runs + 1
    /\ args' = a
    /\ files_head_ids' = a.head_ids
    /\ files_tail_ids' = a.tail_ids
    /\ confusions' = a.confusions
    /\ wer_vs_length_p' = a.print_wer_vs_length
    /\ ref_token_count' = 0
    /\ match_count' = 0
    /\ error_count' = 0
    /\ sent_error_count' = 0
    /\ line_count' = 0
    /\ processed' = <<>>
    /\ pc' = "loop"
    /\ UNCHANGED <<aligner, wer_bins, tables, line_locals, raised, pairs, results,
                   mismatch>>

\* One iteration of the for loop (lines 90-101): process_line_pair on the
\* next pair of lines, then the totals.  With keep, the state shows the
\* locals process_line_pair had at its return; without, they are gone with
\* its frame.
LoopIteration(ref_line, hyp_line, keep) ==
    /\ pc = "loop"
    /\ pairs < MaxPairs
    /\ pairs' = pairs + 1
    /\ \E o \in process_line_pair(ref_line, hyp_line, args.case_insensitive,
                                  args.remove_empty_refs) :
        LET t == totals_after(o)
        IN  /\ pc' = IF o.raise = "" THEN "loop"
                     ELSE IF o.raise = "SystemExit" THEN "exited" ELSE "raised"
            /\ raised' = o.raise
            /\ processed_p' = o.processed_p
            /\ ref_length' = o.ref_length
            /\ matches' = o.matches
            /\ errors' = o.errors
            /\ ref' = IF keep THEN o.ref ELSE <<>>
            /\ hyp' = IF keep THEN o.hyp ELSE <<>>
            /\ sm' = IF keep THEN o.sm ELSE None
            /\ insertion_table' = o.tables.ins
            /\ deletion_table' = o.tables.del
            /\ substitution_table' = o.tables.sub
            /\ wer_bins' = o.wer_bins
            /\ line_count' = t.line_count
            /\ ref_token_count' = t.ref_token_count
            /\ match_count' = t.match_count
            /\ error_count' = t.error_count
            /\ sent_error_count' = t.sent_error_count
            /\ processed' = IF o.processed_p
                            THEN Append(processed, [ref_length |-> o.ref_length,
                                                    hyp_length |-> Len(o.hyp),
                                                    matches |-> o.matches,
                                                    errors |-> o.errors])
                            ELSE processed
    /\ mismatch' = (mismatch \/ ids_differ(ref_line, hyp_line))
    /\ UNCHANGED <<aligner, config, args, runs, results>>

\* zip() is exhausted: lines 103-130, and the frame of evaluate is gone.
Return ==
    /\ pc = "loop"
    /\ results' = Append(results, evaluation_results)
    /\ pc' = "idle"
    /\ ref_token_count' = 0
    /\ match_count' = 0
    /\ error_count' = 0
    /\ sent_error_count' = 0
    /\ line_count' = 0
    /\ processed_p' = FALSE
    /\ ref_length' = 0
    /\ matches' = 0
    /\ errors' = 0
    /\ ref' = <<>>
    /\ hyp' = <<>>
    /\ sm' = None
    /\ UNCHANGED <<aligner, config, wer_bins, tables, args, raised, runs, pairs,
                   processed, mismatch>>

Next ==
    \/ \E a \in Args : Evaluate(a)
    \/ \E ref_line \in Lines, hyp_line \in Lines : LoopIteration(ref_line, hyp_line, TRUE)
    \/ Return

\* A process that calls evaluate once, as main does.
NextUnobserved ==
    \/ \E a \in Args : runs = 0 /\ Evaluate(a)
    \/ \E ref_line \in Lines, hyp_line \in Lines : LoopIteration(ref_line, hyp_line, FALSE)
    \/ Return

Init == Start /\ aligner = "minimum"

Spec == Init /\ [][Next]_vars

\* The same program over any aligner whose opcodes partition both sequences.
InitAnyAligner == Start /\ aligner = "any"

SpecAnyAligner == InitAnyAligner /\ [][NextUnobserved]_vars

\* ------------------------------------------------------------- properties
RECURSIVE SumOf(_, _)
\* The sum of f over the set S.
SumOf(f(_), S) ==
    IF S = {} THEN 0
    ELSE LET x == CHOOSE y \in S : TRUE IN f(x) + SumOf(f, S \ {x})

Last(s) == s[Len(s)]
Count(table, key) == IF key \in DOMAIN table THEN table[key] ELSE 0
Bin(bins, len) == IF len \in DOMAIN bins THEN bins[len] ELSE <<>>

\* The totals that folding the processed LineResults gives.
FoldIs(n, rtc, mc, ec, sec) ==
    LET ref_len(k) == processed[k].ref_length
        match(k) == processed[k].matches
        err(k) == processed[k].errors
    IN  /\ n = Len(processed)
        /\ rtc = SumOf(ref_len, DOMAIN processed)
        /\ mc = SumOf(match, DOMAIN processed)
        /\ ec = SumOf(err, DOMAIN processed)
        /\ sec = Cardinality({k \in DOMAIN processed : processed[k].errors > 0})

\* A loop iteration has just run.
Stepped == pc = "loop" /\ pairs' = pairs + 1

\* C1: the totals, in the loop and in the result returned, are the fold of
\* the LineResults of the processed pairs, each counted once: the sentence
\* count is their number, the token, match and error counts are their sums,
\* and the sentence error count is the number of them with an error.
C1_TotalsAreFoldOfProcessed ==
    /\ pc = "loop" =>
        FoldIs(line_count, ref_token_count, match_count, error_count, sent_error_count)
    /\ (pc = "idle" /\ results # <<>>) =>
        FoldIs(Last(results).sentence_count, Last(results).ref_token_count,
               Last(results).match_count, Last(results).error_count,
               Last(results).sent_error_count)

C1_Witness ==
    /\ pc = "idle"
    /\ results # <<>>
    /\ pairs = 2
    /\ Last(results).sentence_count = 1
    /\ Last(results).error_count = 2
    /\ Last(results).sent_error_count = 1

\* C2: under remove_empty_refs, a pair whose reference is empty once the IDs
\* are off is returned as not processed and changes no total, no confusion
\* table and no length bin, whatever its hypothesis.
C2_EmptyRefChangesNothing ==
    [][(Stepped /\ args.remove_empty_refs /\ raised' = "" /\ ref' = <<>>)
        => (~processed_p' /\ UNCHANGED <<totals, tables, wer_bins>>)]_vars

C2_Witness ==
    /\ pc = "loop"
    /\ args.remove_empty_refs
    /\ confusions
    /\ files_head_ids
    /\ pairs = 2
    /\ line_count = 1
    /\ ~processed_p
    /\ ref = <<>>
    /\ hyp # <<>>

\* C3 as stated: with a positive denominator every rate lies in [0, 1].
C3_RatesWithinUnitInterval ==
    /\ ref_token_count > 0 =>
        /\ 0 <= error_count /\ error_count <= ref_token_count
        /\ 0 <= match_count /\ match_count <= ref_token_count
    /\ line_count > 0 => (0 <= sent_error_count /\ sent_error_count <= line_count)

\* C3, amended: the match count lies between 0 and the reference token
\* count and the sentence error count between 0 and the sentence count, so
\* WRR and SER lie in [0, 1]; the error count is not below 0 and is at most
\* the sum over the processed pairs of the longer of reference and
\* hypothesis, so WER is not below 0 but exceeds 1 where hypotheses are
\* longer than references.  The rates returned are these quotients.
C3_RatesBounded ==
    LET longer(k) == Max(processed[k].ref_length, processed[k].hyp_length)
    IN  /\ pc = "loop" =>
            /\ 0 <= match_count /\ match_count <= ref_token_count
            /\ 0 <= sent_error_count /\ sent_error_count <= line_count
            /\ 0 <= error_count
            /\ error_count <= SumOf(longer, DOMAIN processed)
        /\ (pc = "idle" /\ results # <<>>) =>
            LET r == Last(results)
            IN  /\ 0 <= r.wrr[1] /\ r.wrr[1] <= r.wrr[2]
                /\ 0 <= r.ser[1] /\ r.ser[1] <= r.ser[2]
                /\ 0 <= r.wer[1] /\ r.wer[2] > 0
                /\ r.wer[1] * r.ref_token_count <= r.wer[2] * SumOf(longer, DOMAIN processed)

C3_Witness ==
    /\ pc = "idle"
    /\ results # <<>>
    /\ Last(results).wer = <<2, 1>>
    /\ Last(results).wrr = <<0, 1>>
    /\ Last(results).ser = <<1, 1>>

\* C4: once a pair has differing reference and hypothesis IDs the process
\* has exited: no further pair is processed and the call returns no result,
\* whatever was processed before.
C4_IdMismatchAborts ==
    mismatch => (pc = "exited" /\ raised = "SystemExit" /\ Len(results) = runs - 1)

C4_Witness ==
    /\ mismatch
    /\ pc = "exited"
    /\ line_count = 1
    /\ pairs = 2

\* C5: a run fails only on differing IDs: with no such pair, every pair is
\* processed and the call returns.
C5_OnlyIdMismatchIsFatal ==
    pc \in {"exited", "raised"} => mismatch

\* The errors the opcodes name: the longer range of every opcode that is an
\* insert, a delete or a replace.
OpErrors(op) ==
    IF op[1] \in {"insert", "delete", "replace"}
    THEN Max(op[3] - op[2], op[5] - op[4]) ELSE 0

\* C6: the error count of a processed line is the sum over its insert,
\* delete and replace opcodes of the longer of the two ranges; equal opcodes
\* add nothing, and a line of equal opcodes only has no error.
C6_ErrorCountIsSumOfLongerRanges ==
    (pc = "loop" /\ processed_p) =>
        LET err(k) == OpErrors(sm.opcodes[k])
        IN  /\ errors = SumOf(err, DOMAIN sm.opcodes)
            /\ (\A k \in DOMAIN sm.opcodes : sm.opcodes[k][1] = "equal") => errors = 0

C6_Witness ==
    /\ pc = "loop"
    /\ processed_p
    /\ sm.opcodes = <<(<<"replace", 0, 1, 0, 2>>)>>
    /\ errors = 2

\* The places the opcodes tagged tag cover: (opcode, reference index),
\* (opcode, hypothesis index), and (opcode, reference index, hypothesis
\* index) for each pair of the two ranges.
RefPlaces(ops, tag) ==
    {<<k, i>> \in (DOMAIN ops) \X (0..MaxLen) :
        ops[k][1] = tag /\ ops[k][2] <= i /\ i < ops[k][3]}
HypPlaces(ops, tag) ==
    {<<k, j>> \in (DOMAIN ops) \X (0..MaxLen) :
        ops[k][1] = tag /\ ops[k][4] <= j /\ j < ops[k][5]}
PairPlaces(ops, tag) ==
    {<<k, i, j>> \in (DOMAIN ops) \X (0..MaxLen) \X (0..MaxLen) :
        /\ ops[k][1] = tag
        /\ ops[k][2] <= i /\ i < ops[k][3]
        /\ ops[k][4] <= j /\ j < ops[k][5]}

\* C7: with confusion tracking on, a processed line adds to insertion_table
\* 1 per hypothesis token of an insert, to deletion_table 1 per reference
\* token of a delete, and to substitution_table 1 per pair of the cross
\* product of a replace's reference and hypothesis tokens (M * N in all for
\* M reference and N hypothesis tokens); nothing else changes a table.
C7_ConfusionTablesCountOpcodes ==
    [][(Stepped /\ confusions /\ processed_p') =>
        LET ops == sm'.opcodes
            product(k) == IF ops[k][1] = "replace"
                          THEN (ops[k][3] - ops[k][2]) * (ops[k][5] - ops[k][4]) ELSE 0
            subs_before(key) == Count(substitution_table, key)
            subs_after(key) == Count(substitution_table', key)
        IN  /\ \A w \in Tokens :
                /\ Count(insertion_table', w) = Count(insertion_table, w)
                    + Cardinality({p \in HypPlaces(ops, "insert") : hyp'[p[2] + 1] = w})
                /\ Count(deletion_table', w) = Count(deletion_table, w)
                    + Cardinality({p \in RefPlaces(ops, "delete") : ref'[p[2] + 1] = w})
            /\ \A w1 \in Tokens, w2 \in Tokens :
                Count(substitution_table', <<w1, w2>>) = Count(substitution_table, <<w1, w2>>)
                    + Cardinality({p \in PairPlaces(ops, "replace") :
                                      ref'[p[2] + 1] = w1 /\ hyp'[p[3] + 1] = w2})
            /\ SumOf(subs_after, Tokens \X Tokens)
                = SumOf(subs_before, Tokens \X Tokens) + SumOf(product, DOMAIN ops)
            /\ DOMAIN insertion_table' \subseteq Tokens
            /\ DOMAIN deletion_table' \subseteq Tokens
            /\ DOMAIN substitution_table' \subseteq Tokens \X Tokens]_vars

C7_Witness ==
    /\ pc = "loop"
    /\ confusions
    /\ processed_p
    /\ pairs = 2
    /\ sm.opcodes = <<(<<"replace", 0, 2, 0, 2>>)>>
    /\ ref = <<"a", "A">>
    /\ hyp = <<"A", "a">>
    /\ Count(substitution_table, <<"a", "A">>) = 2
    /\ Count(substitution_table, <<"a", "a">>) = 1
    /\ Count(insertion_table, "A") = 1

\* C8: the accumulators are fresh in every call: while the call has
\* processed no pair the confusion tables and the length bins are empty, and
\* a call that processed none returns no substitution.
C8_AccumulatorsFreshPerRun ==
    (runs > 0 /\ processed = <<>>) =>
        /\ insertion_table = EmptyDict
        /\ deletion_table = EmptyDict
        /\ substitution_table = EmptyDict
        /\ wer_bins = EmptyDict
        /\ (pc = "idle" => Last(results).substitutions = EmptyDict)

\* The entry x is the error rate errs / len, positive infinity for len = 0.
IsErrorRate(x, errs, len) ==
    IF len > 0 THEN x[2] > 0 /\ x[1] * len = errs * x[2] ELSE x = Inf

\* The bins are the bins before with one entry more, x, in the bin of len.
OneEntryMore(before, after, len) ==
    /\ DOMAIN after = DOMAIN before \cup {len}
    /\ \A l \in DOMAIN after \ {len} : after[l] = before[l]
    /\ Len(after[len]) = Len(Bin(before, len)) + 1
    /\ SubSeq(after[len], 1, Len(after[len]) - 1) = Bin(before, len)

\* C9 as stated: with the length report off no pair changes the length
\* bins; with it on a processed pair appends its error rate to the bin of
\* its reference length and changes no other bin.
C9_LengthBinsGated ==
    [][Stepped =>
        IF ~wer_vs_length_p THEN wer_bins' = wer_bins
        ELSE processed_p' =>
            /\ OneEntryMore(wer_bins, wer_bins', ref_length')
            /\ IsErrorRate(Last(wer_bins'[ref_length']), errors', ref_length')]_vars

\* C9, amended: the length bins are not gated (print_wer_vs_length gates the
\* report only): whether it is on or off, a processed pair appends its error
\* rate, positive infinity for an empty reference, to the bin of its
\* reference length and changes no other bin, and a pair that is not
\* processed changes none.
C9_LengthBinsAlwaysTracked ==
    [][Stepped =>
        IF processed_p'
        THEN /\ OneEntryMore(wer_bins, wer_bins', ref_length')
             /\ IsErrorRate(Last(wer_bins'[ref_length']), errors', ref_length')
        ELSE wer_bins' = wer_bins]_vars

C9_Witness ==
    /\ pc = "loop"
    /\ ~wer_vs_length_p
    /\ processed_p
    /\ Bin(wer_bins, 0) = <<Inf, Inf>>

\* C10: over any aligner whose opcodes partition both sequences, the
\* matches are at most the reference tokens, which are at most the matches
\* and the errors together; the sentences in error are at most the errors,
\* and there is none exactly when there is no error.
C10_TotalsOrdered ==
    /\ match_count <= ref_token_count
    /\ ref_token_count <= match_count + error_count
    /\ sent_error_count <= error_count
    /\ (sent_error_count = 0) <=> (error_count = 0)

C10_Witness ==
    /\ aligner = "any"
    /\ pc = "loop"
    /\ line_count = 2
    /\ match_count = 1
    /\ ref_token_count = 3
    /\ error_count = 4
    /\ sent_error_count = 1

====
